---- MODULE Spec2Model ----
(***************************************************************************)
(* Staged-item batch-job coordinator of the alma-item-checks processor     *)
(* service: the SCF and IZ "no row tray" report services.                  *)
(*                                                                         *)
(*   services/scf_no_row_tray_report_service.py  (job record, fan-in)      *)
(*   services/iz_no_row_tray_report_service.py   (lock row, staleness)     *)
(*                                                                         *)
(* One deployment of one of the two services is modelled at a time (svc).  *)
(* Every storage call of the code is one atomic step; the launchers and    *)
(* the batch workers interleave between their storage calls.               *)
(***************************************************************************)
EXTENDS Integers, Sequences, FiniteSets, TLC

\* ------------------------------------------------------------------ bounds
MaxItems == 2
MaxUpsets == 1

\* --------------------------------------------------------------- constants
\* timedelta(minutes=30): the IZ lock is stale when older than this.
StaleMinutes == 30
\* Granularity of the model's clock, and the largest lock age told apart.
TickMinutes == StaleMinutes
MaxAge == StaleMinutes + TickMinutes

Barcodes == 1..MaxItems
\* The launch invocations, in the order in which the timer starts them.
Launchers == {1, 2}
\* The function host runs this many process_batch invocations at a time.
WorkerPool == {"W1", "W2"}
\* Every launch invocation draws at most one job id.
JobIds == 1..Cardinality(Launchers)
Services == {"scf", "iz"}
NoLock == -1
NoJobId == 0

\* The calls that can fail, by call site, and duplicate delivery by the queue. One run
\* suffers disturbances of one kind only, at most MaxUpsets of them.
UpsetKinds(s) ==
    IF s = "scf"
    THEN {"lock_query", "institution", "staged_query", "job_create", "send",
          "job_query", "job_update", "stage_delete", "duplicate",
          "triage_raise", "artifact_store", "report_upload", "message_parse"}
    ELSE {"lock_query", "lock_upsert", "lock_delete", "staged_query", "send",
          "stage_delete", "cleanup_query", "lock_release", "duplicate",
          "triage_raise", "artifact_store", "update_send", "message_parse"}

VARIABLES
    svc,          \* which service this deployment runs
    upset,        \* the kind of disturbance this run may suffer
    batchSize,    \* *_NO_ROW_TRAY_BATCH_SIZE
    staged,       \* staging table partition '<svc>_no_row_tray': set of RowKeys
    lock,         \* IZ row ('iz_batch_lock','current_job'): NoLock or its age in minutes
    jobs,         \* SCF report table partition 'batch_job': job id -> record
    nextJob,      \* number of job ids handed out by uuid4
    launch,       \* launcher -> state of its process_staged_items_report invocation
    sendLog,      \* job id -> sequence of the batch messages passed to send_queue_message
    queue,        \* batch messages the queue accepted
    work,         \* <<job, batch_number, delivery>> -> state of that process_batch invocation
    dups,         \* number of duplicate deliveries so far
    faults,       \* number of storage / lookup failures injected so far
    reportCalls,  \* job id -> number of _generate_final_report invocations
    transitions,  \* job id -> number of writes that moved the stored status to completed
    reported,     \* job id -> the _update_batch_progress calls that returned: how many, their counts
    stored,       \* <<job id, barcode>> -> per-item artifacts persisted: SCF report rows, IZ item blobs
    updateMsgs,   \* <<job id, barcode>> -> IZ messages on the update queue for that item
    artifacts,    \* job id -> final report artifacts stored under distinct names
    notices,      \* job id -> messages sent to the notification queue
    handled,      \* <<job, batch_number, delivery>> -> what the queue handler did with it
    reports,      \* job id -> that job's final report as it lies in the reports container
    blobsNow      \* the jobs whose report was stored under a blob name of the current second

vars == <<svc, upset, batchSize, staged, lock, jobs, nextJob, launch, sendLog, queue,
          work, dups, faults, reportCalls, transitions, reported,
          stored, updateMsgs, artifacts, notices, handled, reports, blobsNow>>

\* What the per-item side effects and the Report Generator leave behind.
effects == <<stored, updateMsgs, artifacts, notices>>

\* ------------------------------------------------------------ pure helpers
Min(a, b) == IF a < b THEN a ELSE b

RECURSIVE SortedSeq(_)
\* get_entities returns the partition's rows in RowKey order.
SortedSeq(S) ==
    IF S = {} THEN <<>>
    ELSE LET m == CHOOSE x \in S : \A y \in S : x <= y
         IN <<m>> \o SortedSeq(S \ {m})

\* Python truthiness of a RowKey (the barcode 0 stands for a missing/empty key).
Truthy(x) == x # 0

\* staged_entities[i : i + BATCH_SIZE] with a 0-based i, as Python slices.
BatchSliceDropLast(list, i, b) == SubSeq(list, i + 1, Min(i + b, Len(list)) - 1)
BatchSlice(list, i, b) == SubSeq(list, i + 1, Min(i + b, Len(list)))

\* (i // BATCH_SIZE) + 1
BatchNumber(i, b) == (i \div b) + 1

\* (total_items + BATCH_SIZE - 1) // BATCH_SIZE
TotalBatches(n, b) == (n + b - 1) \div b

\* The batch message built by one iteration of _enqueue_batches.
BatchMessage(list, i, b, job) ==
    [job_id |-> job,
     batch_number |-> BatchNumber(i, b),
     barcodes |-> SelectSeq(BatchSlice(list, i, b), Truthy)]

\* The reports container holds no report of the job.
NoReport ==
    [job_id |-> NoJobId, total_items |-> 0, total_batches |-> 0,
     successfully_processed |-> 0, failed |-> 0, processed_items |-> {}, failed_items |-> {}]

\* job_record of _create_batch_job.
NewJobRecordCounted(n, b) ==
    [status |-> "in_progress", total_items |-> n, total_batches |-> TotalBatches(n, b),
     completed_batches |-> 1, processed_items |-> 0, failed_items |-> 0]
NewJobRecord(n, b) ==
    [status |-> "in_progress", total_items |-> n, total_batches |-> TotalBatches(n, b),
     completed_batches |-> 0, processed_items |-> 0, failed_items |-> 0]

AbsentJob ==
    [status |-> "absent", total_items |-> 0, total_batches |-> 0,
     completed_batches |-> 0, processed_items |-> 0, failed_items |-> 0]

\* datetime.now(utc) - lock_time > timedelta(minutes=30)
IsStaleNever(age) == FALSE
IsStale(age) == age > StaleMinutes

\* What _is_job_already_running returns from its except branch.
RunningOnErrorBlocks == TRUE
RunningOnError == FALSE

\* filter "PartitionKey eq 'batch_job' and status eq 'in_progress'"
InProgressJobsNone == {}
InProgressJobs == {j \in JobIds : jobs[j].status = "in_progress"}

IdleLaunch ==
    [pc |-> "check", list |-> <<>>, job |-> NoJobId, i |-> 0, total_batches |-> 0,
     result |-> "none", via |-> "none"]

\* ----------------------------------------------------------------- initial
InitWith(kinds) ==
    /\ svc \in Services
    /\ upset \in kinds
    /\ batchSize \in 1..MaxItems
    /\ staged \in {1..n : n \in 0..MaxItems}
    /\ lock = NoLock
    /\ jobs = [j \in JobIds |-> AbsentJob]
    /\ nextJob = 0
    /\ launch = [l \in Launchers |-> IdleLaunch]
    /\ sendLog = [j \in JobIds |-> <<>>]
    /\ queue = {}
    /\ work = <<>>
    /\ dups = 0
    /\ faults = 0
    /\ reportCalls = [j \in JobIds |-> 0]
    /\ transitions = [j \in JobIds |-> 0]
    /\ reported = [j \in JobIds |-> [calls |-> 0, processed |-> 0, failed |-> 0]]
    /\ stored = [p \in JobIds \X Barcodes |-> 0]
    /\ updateMsgs = [p \in JobIds \X Barcodes |-> 0]
    /\ artifacts = [j \in JobIds |-> 0]
    /\ notices = [j \in JobIds |-> 0]
    /\ handled = <<>>
    /\ reports = [j \in JobIds |-> NoReport]
    /\ blobsNow = {}

\* The call of kind `kind` made by this step fails (a storage error, or a database
\* lookup that finds nothing).
Fault(kind) == upset = kind /\ faults < MaxUpsets /\ faults' = faults + 1
NoFault == faults' = faults

\* ------------------------------------------------- Job Launcher (both services)
\* The timer fires and process_staged_items_report starts with its lock check. The
\* timer trigger starts no invocation while an earlier one is still running.
Starts(l) ==
    /\ launch[l].pc = "check"
    /\ \A m \in Launchers : m < l => launch[m].pc = "done"

\* Two launch invocations that do not wait for one another.
StartsOverlapping(l) == launch[l].pc = "check"

\* _is_job_already_running returns `running`; process_staged_items_report goes on or returns.
\* `via` records the branch taken: "held", "absent", "stale" or "error".
LockCheckReturns(l, running, via) ==
    launch' = [launch EXCEPT ![l].pc = IF running THEN "done" ELSE "read",
                             ![l].result = IF running THEN "already_running" ELSE "proceed",
                             ![l].via = via]

\* SCF _is_job_already_running: one query for in_progress job records.
CheckSCF(l, starts) ==
    /\ svc = "scf"
    /\ starts
    /\ \/ Fault("lock_query") /\ LockCheckReturns(l, RunningOnError, "error")
       \/ NoFault /\ LockCheckReturns(l, InProgressJobs # {},
                                    IF InProgressJobs # {} THEN "held" ELSE "absent")
    /\ UNCHANGED <<svc, upset, batchSize, staged, lock, jobs, nextJob, sendLog, queue, work,
                   dups, reportCalls, transitions, reported>>
    /\ UNCHANGED effects
    /\ UNCHANGED <<handled, reports, blobsNow>>

\* IZ _is_job_already_running, the query for the lock row.
CheckIZ(l, starts) ==
    /\ svc = "iz"
    /\ starts
    /\ \/ Fault("lock_query") /\ LockCheckReturns(l, RunningOnError, "error")
       \/ /\ NoFault
          /\ IF lock = NoLock
             THEN launch' = [launch EXCEPT ![l].pc = "acquire"]
             ELSE IF IsStale(lock)
                  THEN launch' = [launch EXCEPT ![l].pc = "evict"]
                  ELSE LockCheckReturns(l, TRUE, "held")
    /\ UNCHANGED <<svc, upset, batchSize, staged, lock, jobs, nextJob, sendLog, queue, work,
                   dups, reportCalls, transitions, reported>>
    /\ UNCHANGED effects
    /\ UNCHANGED <<handled, reports, blobsNow>>

\* IZ _is_job_already_running, no lock row found: upsert a new one.
AcquireIZ(l) ==
    /\ svc = "iz"
    /\ launch[l].pc = "acquire"
    /\ \/ Fault("lock_upsert") /\ LockCheckReturns(l, RunningOnError, "error") /\ UNCHANGED lock
       \/ NoFault /\ LockCheckReturns(l, FALSE, "absent") /\ lock' = 0
    /\ UNCHANGED <<svc, upset, batchSize, staged, jobs, nextJob, sendLog, queue, work,
                   dups, reportCalls, transitions, reported>>
    /\ UNCHANGED effects
    /\ UNCHANGED <<handled, reports, blobsNow>>

\* IZ _is_job_already_running, stale lock row found: delete it.
EvictIZ(l) ==
    /\ svc = "iz"
    /\ launch[l].pc = "evict"
    /\ \/ Fault("lock_delete") /\ LockCheckReturns(l, RunningOnError, "error") /\ UNCHANGED lock
       \/ NoFault /\ LockCheckReturns(l, FALSE, "stale") /\ lock' = NoLock
    /\ UNCHANGED <<svc, upset, batchSize, staged, jobs, nextJob, sendLog, queue, work,
                   dups, reportCalls, transitions, reported>>
    /\ UNCHANGED effects
    /\ UNCHANGED <<handled, reports, blobsNow>>

\* process_staged_items_report returns before _create_batch_job.
LaunchReturnsGoesOn(l) == launch' = [launch EXCEPT ![l].pc = "create"]
LaunchReturns(l) == launch' = [launch EXCEPT ![l].pc = "done"]

\* _get_scf_institution (SCF only) and _get_staged_items.
ReadStaged(l) ==
    /\ launch[l].pc = "read"
    /\ \/ Fault("institution") /\ LaunchReturns(l)        \* SCF institution not found
       \/ Fault("staged_query") /\ LaunchReturns(l)       \* query failed: []
       \/ /\ NoFault
          /\ IF staged = {}
             THEN LaunchReturns(l)
             ELSE launch' = [launch EXCEPT ![l].pc = "create",
                                           ![l].list = SortedSeq(staged)]
    /\ UNCHANGED <<svc, upset, batchSize, staged, lock, jobs, nextJob, sendLog, queue, work,
                   dups, reportCalls, transitions, reported>>
    /\ UNCHANGED effects
    /\ UNCHANGED <<handled, reports, blobsNow>>

\* _create_batch_job logs the failed upsert and raises; nothing in
\* process_staged_items_report or the timer function catches it.
LaunchRaisesSwallowed(l, id, n) ==
    launch' = [launch EXCEPT ![l].pc = "send", ![l].job = id,
                             ![l].total_batches = TotalBatches(n, batchSize)]
LaunchRaises(l, id, n) == launch' = [launch EXCEPT ![l].pc = "done", ![l].result = "raised"]

\* _create_batch_job: SCF writes the job record, IZ only computes and logs.
CreateJob(l) ==
    /\ launch[l].pc = "create"
    /\ nextJob' = nextJob + 1
    /\ LET id == nextJob + 1
           n == Len(launch[l].list)
       IN \/ /\ Fault("job_create")                          \* upsert failed: raise
             /\ LaunchRaises(l, id, n)
             /\ UNCHANGED jobs
          \/ /\ NoFault
             /\ jobs' = IF svc = "scf"
                        THEN [jobs EXCEPT ![id] = NewJobRecord(n, batchSize)]
                        ELSE jobs
             /\ launch' = [launch EXCEPT ![l].pc = "send", ![l].job = id,
                                         ![l].total_batches = TotalBatches(n, batchSize)]
    /\ UNCHANGED <<svc, upset, batchSize, staged, lock, sendLog, queue, work,
                   dups, reportCalls, transitions, reported>>
    /\ UNCHANGED effects
    /\ UNCHANGED <<handled, reports, blobsNow>>

\* Where _enqueue_batches goes on after send_queue_message raised, `pc` being where
\* the loop goes on after a send that worked: the except logs, the loop continues.
EnqueueFailedAborts(pc) == "done"
EnqueueFailed(pc) == pc

\* One iteration of the loop of _enqueue_batches.
Send(l) ==
    /\ launch[l].pc = "send"
    /\ LET L == launch[l]
           msg == BatchMessage(L.list, L.i, batchSize, L.job)
           pc == IF L.i + batchSize >= Len(L.list) THEN "done" ELSE "send"
       IN /\ sendLog' = [sendLog EXCEPT ![L.job] = Append(@, msg)]
          /\ \/ /\ Fault("send") /\ UNCHANGED queue
                /\ launch' = [launch EXCEPT ![l].i = L.i + batchSize,
                                            ![l].pc = EnqueueFailed(pc)]
             \/ /\ NoFault /\ queue' = queue \cup {msg}
                /\ launch' = [launch EXCEPT ![l].i = L.i + batchSize, ![l].pc = pc]
    /\ UNCHANGED <<svc, upset, batchSize, staged, lock, jobs, nextJob, work,
                   dups, reportCalls, transitions, reported>>
    /\ UNCHANGED effects
    /\ UNCHANGED <<handled, reports, blobsNow>>

\* ------------------------------------------------------------ Batch Worker
SeqSet(q) == {q[x] : x \in DOMAIN q}
Deliveries == 1..(MaxUpsets + 1)
KeyOf(m, d) == <<m.job_id, m.batch_number, d>>

\* The process_batch invocations that have neither returned nor raised yet.
Active == {k \in DOMAIN work : work[k].pc \notin {"done", "raised"}}

\* process_batch has returned: its locals are gone.
Returned == [pc |-> "done", barcodes |-> <<>>, processed |-> 0, failed |-> 0, snap |-> AbsentJob]

\* An error escaped process_batch: the queue handler logs it and raises it again.
Raised == [pc |-> "raised", barcodes |-> <<>>, processed |-> 0, failed |-> 0, snap |-> AbsentJob]

\* The handler of delivery k raised: the host does not delete the message, which
\* becomes visible on the queue again.
UnacknowledgedNever(k) == FALSE
Unacknowledged(k) == work[k].pc = "raised"

\* What the queue handler did with one delivery: whether it invoked process_batch, with
\* how many items, how often that invocation called _update_batch_progress, and the
\* sum of the two counts it passed, the barcodes it called delete_entity for on the
\* staging table, in order, and those for which that call raised.
Handling(invoked, n) ==
    [invoked |-> invoked, items |-> n, progress |-> 0, counted |-> 0,
     deletes |-> <<>>, undeleted |-> {}]

\* What the collaborators answer for one item: whether retrieve_item_by_barcode returns
\* an item, what no_row_tray_should_process returns, and (IZ) what
\* no_row_tray_report_process returns.
Answers == [item : BOOLEAN, holds : BOOLEAN, updated : BOOLEAN]

\* _process_single_item: the result, and the collaborator calls made on the way.
TriageItem(s, a) ==
    IF ~a.item
    THEN [success |-> FALSE, reason |-> "Item not found in Alma", calls |-> {"fetch"}]
    ELSE IF ~a.holds
    THEN [success |-> FALSE, reason |-> "No longer meets processing criteria",
          calls |-> {"fetch", "predicate"}]
    ELSE IF s = "iz"
    THEN [success |-> a.updated,
          reason |-> IF a.updated THEN "" ELSE "Failed to update item with SCF data",
          calls |-> {"fetch", "predicate", "side_effect"}]
    ELSE [success |-> TRUE, reason |-> "", calls |-> {"fetch", "predicate"}]

\* The items of seq whose result["success"] is true, under the answers env.
Succeeded(s, seq, env) ==
    {seq[x] : x \in {y \in DOMAIN seq : TriageItem(s, env[seq[y]]).success}}

\* The per-item artifacts after the items ok of job `job` succeeded. SCF upserts the
\* report row keyed f"{job_id}_{barcode}"; IZ uploads a blob named by a fresh
\* generate_job_id and queues an update message naming it. For the items in noStore the
\* upsert / upload failed (caught, logged), for those in noSend the queue send failed.
Persist(s, job, ok, noStore, noSend) ==
    /\ stored' = [p \in DOMAIN stored |->
                     IF p[1] = job /\ p[2] \in ok \ noStore
                     THEN IF s = "scf" THEN 1 ELSE stored[p] + 1
                     ELSE stored[p]]
    /\ updateMsgs' = [p \in DOMAIN updateMsgs |->
                     IF s = "iz" /\ p[1] = job /\ p[2] \in ok \ (noStore \cup noSend)
                     THEN updateMsgs[p] + 1
                     ELSE updateMsgs[p]]

\* The locals of process_batch that reach a storage call: the IZ service only logs
\* its two counts, the SCF service passes them to _update_batch_progress.
NewWork(m, pc, ok) ==
    [pc |-> pc, barcodes |-> m.barcodes,
     processed |-> IF svc = "scf" THEN Cardinality(ok) ELSE 0,
     failed |-> IF svc = "scf" THEN Len(m.barcodes) - Cardinality(ok) ELSE 0,
     snap |-> AbsentJob]

\* The queue trigger hands message m to process_batch (delivery d > 1 is a duplicate);
\* the items are triaged one after the other, ok being those whose outcome is success.
Deliver(m, d) ==
    /\ m \in queue
    /\ Cardinality(Active) < Cardinality(WorkerPool)
    /\ KeyOf(m, d) \notin DOMAIN work
    /\ IF d = 1
       THEN UNCHANGED dups
       ELSE /\ KeyOf(m, d - 1) \in DOMAIN work
            /\ IF Unacknowledged(KeyOf(m, d - 1))
               THEN UNCHANGED dups                       \* visible again after the raise
               ELSE upset = "duplicate" /\ dups < MaxUpsets /\ dups' = dups + 1
    /\ \/ /\ Fault("message_parse")                      \* json.loads raises in the handler
          /\ work' = work @@ (KeyOf(m, d) :> Raised)
          /\ handled' = handled @@ (KeyOf(m, d) :> Handling(FALSE, 0))
          /\ UNCHANGED <<stored, updateMsgs>>
       \/ /\ Fault("institution")                        \* SCF institution not found: return
          /\ work' = work @@ (KeyOf(m, d) :> Returned)
          /\ handled' = handled @@ (KeyOf(m, d) :> Handling(TRUE, Len(m.barcodes)))
          /\ UNCHANGED <<stored, updateMsgs>>
       \/ /\ Fault("triage_raise")                       \* item n raises: nothing catches it
          /\ \E n \in 1..Len(m.barcodes), env \in [SeqSet(m.barcodes) -> Answers] :
               Persist(svc, m.job_id,
                       Succeeded(svc, SubSeq(m.barcodes, 1, n - 1), env), {}, {})
          /\ work' = work @@ (KeyOf(m, d) :> Raised)
          /\ handled' = handled @@ (KeyOf(m, d) :> Handling(TRUE, Len(m.barcodes)))
       \/ \E env \in [SeqSet(m.barcodes) -> Answers] :
             LET ok == Succeeded(svc, m.barcodes, env)
             IN /\ work' = work @@ (KeyOf(m, d) :>
                              NewWork(m, IF svc = "scf" THEN "read" ELSE "clear", ok))
                /\ handled' = handled @@ (KeyOf(m, d) :> Handling(TRUE, Len(m.barcodes)))
                /\ \/ NoFault /\ Persist(svc, m.job_id, ok, {}, {})
                   \/ Fault("artifact_store")
                        /\ \E x \in ok : Persist(svc, m.job_id, ok, {x}, {})
                   \/ Fault("update_send")
                        /\ \E x \in ok : Persist(svc, m.job_id, ok, {}, {x})
    /\ UNCHANGED <<svc, upset, batchSize, staged, lock, jobs, nextJob, launch, sendLog, queue,
                   reportCalls, transitions, reported, artifacts, notices, reports, blobsNow>>

\* _update_batch_progress, lines 291-304: the record to write, from the record read.
UpdatedJobOverwrite(snap, p, f) ==
    LET cb == snap.completed_batches + 1
    IN [snap EXCEPT !.completed_batches = cb,
                    !.processed_items = p,
                    !.failed_items = f,
                    !.status = IF cb >= snap.total_batches THEN "completed" ELSE @]
UpdatedJobLate(snap, p, f) ==
    LET cb == snap.completed_batches + 1
    IN [snap EXCEPT !.completed_batches = cb,
                    !.processed_items = @ + p,
                    !.failed_items = @ + f,
                    !.status = IF cb > snap.total_batches THEN "completed" ELSE @]
UpdatedJobKeepsStatus(snap, p, f) ==
    [snap EXCEPT !.completed_batches = @ + 1,
                 !.processed_items = @ + p,
                 !.failed_items = @ + f]
UpdatedJob(snap, p, f) ==
    LET cb == snap.completed_batches + 1
    IN [snap EXCEPT !.completed_batches = cb,
                    !.processed_items = @ + p,
                    !.failed_items = @ + f,
                    !.status = IF cb >= snap.total_batches THEN "completed" ELSE @]

\* _update_batch_progress(job_id, batch_processed, batch_failed) returns.
ProgressReturns(k) ==
    reported' = [reported EXCEPT ![k[1]] =
                    [calls |-> @.calls + 1,
                     processed |-> @.processed + work[k].processed,
                     failed |-> @.failed + work[k].failed]]

\* _update_batch_progress could not read the job record: it logs and returns, and
\* process_batch goes on to _clear_batch_from_staging.
ProgressDroppedWrites(k) ==
    /\ work' = [work EXCEPT ![k].pc = "clear"]
    /\ ProgressReturns(k)
    /\ jobs' = [jobs EXCEPT ![k[1]] = UpdatedJob(@, work[k].processed, work[k].failed)]
ProgressDropped(k) ==
    /\ work' = [work EXCEPT ![k].pc = "clear"]
    /\ ProgressReturns(k)
    /\ UNCHANGED jobs

\* _update_batch_progress, the query for the job record.
ReadJob(k) ==
    /\ k \in DOMAIN work /\ work[k].pc = "read"
    /\ handled' = [handled EXCEPT ![k].progress = @ + 1,
                                  ![k].counted = work[k].processed + work[k].failed]
    /\ \/ Fault("job_query") /\ ProgressDropped(k)             \* caught and logged
       \/ /\ NoFault
          /\ IF jobs[k[1]].status = "absent"
             THEN ProgressDropped(k)                             \* "not found": return
             ELSE /\ work' = [work EXCEPT ![k].pc = "write", ![k].snap = jobs[k[1]]]
                  /\ UNCHANGED <<jobs, reported>>
    /\ UNCHANGED <<svc, upset, batchSize, staged, lock, nextJob, launch, sendLog, queue,
                   dups, reportCalls, transitions>>
    /\ UNCHANGED effects
    /\ UNCHANGED <<reports, blobsNow>>

\* _generate_final_report for job j: upload_blob_data under a name made of the time of
\* generation, then _send_notification; a failed upload is logged and nothing is sent.
\* artifacts counts the uploads that succeeded, notices the sends to the notification queue.
GenerateReportAlwaysNotifies(j, persisted) ==
    /\ artifacts' = [artifacts EXCEPT ![j] = IF persisted THEN @ + 1 ELSE @]
    /\ notices' = [notices EXCEPT ![j] = @ + 1]
GenerateReport(j, persisted) ==
    /\ artifacts' = [artifacts EXCEPT ![j] = IF persisted THEN @ + 1 ELSE @]
    /\ notices' = [notices EXCEPT ![j] = IF persisted THEN @ + 1 ELSE @]

\* The rows of the report table other than the job records, by partition: process_batch
\* upserts one row per successful item into 'scf_no_row_tray_item', and nothing else.
ReportTableRows ==
    {[PartitionKey |-> "scf_no_row_tray_item", job_id |-> p[1], barcode |-> p[2]] :
        p \in {q \in DOMAIN stored : svc = "scf" /\ stored[q] >= 1}}

\* _get_processed_items_for_job(job_id, partition_key): the barcodes of the rows found
\* by "PartitionKey eq '<partition_key>' and job_id eq '<job_id>'".
GetProcessedItemsForJob(j, partition_key) ==
    {r.barcode : r \in {x \in ReportTableRows :
                            x.PartitionKey = partition_key /\ x.job_id = j}}

\* The report dict of _generate_final_report, built from the job entity just written.
FinalReport(j, job_entity) ==
    LET processed_items == GetProcessedItemsForJob(j, "processed_item")
        failed_items == GetProcessedItemsForJob(j, "failed_item")
    IN [job_id |-> j,
        total_items |-> job_entity.total_items,
        total_batches |-> job_entity.total_batches,
        successfully_processed |-> Cardinality(processed_items),
        failed |-> Cardinality(failed_items),
        processed_items |-> processed_items,
        failed_items |-> failed_items]

\* report_name: the prefix and the time of generation to the second ("now" stands for
\* the strftime of the current second).
ReportName(j) == <<"scf_no_row_tray_report", "now">>

\* upload_blob_data(blob_name = report_name + ".json"): the blob replaces whatever lies
\* under the same name.
StoreReport(j, job_entity, persisted) ==
    IF persisted
    THEN LET replaced == {i \in blobsNow : ReportName(i) = ReportName(j)}
         IN /\ reports' = [i \in JobIds |->
                               IF i = j THEN FinalReport(j, job_entity)
                               ELSE IF i \in replaced THEN NoReport
                               ELSE reports[i]]
            /\ blobsNow' = (blobsNow \ replaced) \cup {j}
    ELSE UNCHANGED <<reports, blobsNow>>

\* _update_batch_progress, upsert_entity of the record `new` of job j raised: the
\* except around the whole body logs, and the lines after the upsert are not run.
UpsertFailedStillReports(j, new) ==
    /\ UNCHANGED <<jobs, transitions>>
    /\ reportCalls' = [reportCalls EXCEPT ![j] = IF new.status = "completed" THEN @ + 1 ELSE @]
    /\ IF new.status = "completed"
       THEN GenerateReport(j, TRUE) /\ StoreReport(j, new, TRUE)
       ELSE UNCHANGED <<artifacts, notices, reports, blobsNow>>
UpsertFailed(j, new) ==
    /\ UNCHANGED <<jobs, reportCalls, transitions, artifacts, notices>>
    /\ UNCHANGED <<reports, blobsNow>>

\* _update_batch_progress, the upsert of the job record, and _generate_final_report
\* when the record written says completed.
WriteJob(k) ==
    /\ k \in DOMAIN work /\ work[k].pc = "write"
    /\ work' = [work EXCEPT ![k].pc = "clear"]
    /\ ProgressReturns(k)
    /\ LET j == k[1]
           new == UpdatedJob(work[k].snap, work[k].processed, work[k].failed)
       IN \/ Fault("job_update") /\ UpsertFailed(j, new)                    \* caught
          \/ /\ jobs' = [jobs EXCEPT ![j] = new]
             /\ transitions' = [transitions EXCEPT ![j] =
                    IF jobs[j].status # "completed" /\ new.status = "completed"
                    THEN @ + 1 ELSE @]
             /\ reportCalls' = [reportCalls EXCEPT ![j] =
                    IF new.status = "completed" THEN @ + 1 ELSE @]
             /\ IF new.status = "completed"
                THEN \/ /\ Fault("report_upload")
                        /\ GenerateReport(j, FALSE) /\ StoreReport(j, new, FALSE)
                     \/ /\ NoFault
                        /\ GenerateReport(j, TRUE) /\ StoreReport(j, new, TRUE)
                ELSE NoFault /\ UNCHANGED <<artifacts, notices, reports, blobsNow>>
    /\ UNCHANGED <<svc, upset, batchSize, staged, lock, nextJob, launch, sendLog, queue, dups,
                   stored, updateMsgs, handled>>

\* The loop of _clear_batch_from_staging(barcodes): the barcodes delete_entity is
\* called for, in order, the calls for the barcodes in `failed` raising. The try is
\* inside the loop: a call that raises is logged and the loop goes on.
RECURSIVE DeleteAttemptsUntilFailure(_, _)
DeleteAttemptsUntilFailure(barcodes, failed) ==
    IF barcodes = <<>> THEN <<>>
    ELSE IF Head(barcodes) \in failed THEN <<Head(barcodes)>>
    ELSE <<Head(barcodes)>> \o DeleteAttemptsUntilFailure(Tail(barcodes), failed)

RECURSIVE DeleteAttempts(_, _)
DeleteAttempts(barcodes, failed) ==
    IF barcodes = <<>> THEN <<>>
    ELSE <<Head(barcodes)>> \o DeleteAttempts(Tail(barcodes), failed)

\* The staging partition after _clear_batch_from_staging(barcodes), the delete_entity
\* calls for the barcodes in `failed` having raised.
StagedAfterClearWholePartition(barcodes, failed) == staged \cap failed
StagedAfterClearSkipsLast(barcodes, failed) ==
    staged \ (SeqSet(SubSeq(barcodes, 1, Len(barcodes) - 1)) \ failed)
StagedAfterClear(barcodes, failed) ==
    staged \ (SeqSet(DeleteAttempts(barcodes, failed)) \ failed)

\* What _clear_batch_from_staging of invocation k did.
Cleared(k, failed) ==
    handled' = [handled EXCEPT ![k].deletes = DeleteAttempts(work[k].barcodes, failed),
                               ![k].undeleted = failed]

\* _clear_batch_from_staging: one delete per barcode, a failed delete is logged.
ClearBatch(k) ==
    /\ k \in DOMAIN work /\ work[k].pc = "clear"
    /\ work' = [work EXCEPT ![k] = IF svc = "iz" THEN [@ EXCEPT !.pc = "cleanup"] ELSE Returned]
    /\ \/ Fault("stage_delete") /\ \E x \in SeqSet(work[k].barcodes) :
                      staged' = StagedAfterClear(work[k].barcodes, {x}) /\ Cleared(k, {x})
       \/ NoFault /\ staged' = StagedAfterClear(work[k].barcodes, {}) /\ Cleared(k, {})
    /\ UNCHANGED <<svc, upset, batchSize, lock, jobs, nextJob, launch, sendLog, queue,
                   dups, reportCalls, transitions, reported>>
    /\ UNCHANGED effects
    /\ UNCHANGED <<reports, blobsNow>>

\* not remaining_items or len(remaining_items) == 0
NoneRemainingAlways(remaining_items) == TRUE
NoneRemaining(remaining_items) == remaining_items = {}

\* IZ _cleanup_job_lock_if_complete, the query for remaining staged items.
CleanupRead(k) ==
    /\ k \in DOMAIN work /\ work[k].pc = "cleanup"
    /\ \/ Fault("cleanup_query") /\ work' = [work EXCEPT ![k] = Returned]
       \/ NoFault /\ work' = [work EXCEPT ![k] = IF NoneRemaining(staged)
                                                THEN [@ EXCEPT !.pc = "unlock"]
                                                ELSE Returned]
    /\ UNCHANGED <<svc, upset, batchSize, staged, lock, jobs, nextJob, launch, sendLog, queue,
                   dups, reportCalls, transitions, reported>>
    /\ UNCHANGED effects
    /\ UNCHANGED <<handled, reports, blobsNow>>

\* IZ _cleanup_job_lock_if_complete, the delete of the lock row.
Unlock(k) ==
    /\ k \in DOMAIN work /\ work[k].pc = "unlock"
    /\ work' = [work EXCEPT ![k] = Returned]
    /\ \/ Fault("lock_release") /\ UNCHANGED lock
       \/ NoFault /\ lock' = NoLock
    /\ UNCHANGED <<svc, upset, batchSize, staged, jobs, nextJob, launch, sendLog, queue,
                   dups, reportCalls, transitions, reported>>
    /\ UNCHANGED effects
    /\ UNCHANGED <<handled, reports, blobsNow>>

\* Time passes: the IZ lock row grows older.
Tick ==
    /\ svc = "iz"
    /\ lock # NoLock /\ lock < MaxAge
    /\ lock' = lock + TickMinutes
    /\ UNCHANGED <<svc, upset, batchSize, staged, jobs, nextJob, launch, sendLog, queue, work,
                   dups, faults, reportCalls, transitions, reported>>
    /\ UNCHANGED effects
    /\ UNCHANGED <<handled, reports, blobsNow>>

\* Time passes: the next report name is a new one.
SecondPasses ==
    /\ blobsNow # {}
    /\ blobsNow' = {}
    /\ UNCHANGED <<svc, upset, batchSize, staged, lock, jobs, nextJob, launch, sendLog, queue,
                   work, dups, faults, reportCalls, transitions, reported>>
    /\ UNCHANGED <<effects, handled, reports>>

Keys == JobIds \X (1..MaxItems) \X Deliveries

\* The timer fires again after an invocation that created no job.
Relaunch(l) ==
    /\ launch[l].pc = "done" /\ launch[l].job = NoJobId
    /\ \A m \in Launchers \ {l} : launch[m].pc \in {"check", "done"}
    /\ launch' = [launch EXCEPT ![l] = IdleLaunch]
    /\ UNCHANGED <<svc, upset, batchSize, staged, lock, jobs, nextJob, sendLog, queue, work,
                   dups, faults, reportCalls, transitions, reported>>
    /\ UNCHANGED effects
    /\ UNCHANGED <<handled, reports, blobsNow>>

Init == InitWith(UNION {UpsetKinds(s) : s \in Services}) /\ upset \in UpsetKinds(svc)

LaunchStepsAfterCheck ==
    \/ \E l \in Launchers : AcquireIZ(l)
    \/ \E l \in Launchers : EvictIZ(l)
    \/ \E l \in Launchers : ReadStaged(l)
    \/ \E l \in Launchers : CreateJob(l)
    \/ \E l \in Launchers : Send(l)

WorkerSteps ==
    \/ \E m \in queue, d \in Deliveries : Deliver(m, d)
    \/ \E k \in Keys : ReadJob(k)
    \/ \E k \in Keys : WriteJob(k)
    \/ \E k \in Keys : ClearBatch(k)
    \/ \E k \in Keys : CleanupRead(k)
    \/ \E k \in Keys : Unlock(k)

\* The deployed system: the timer starts one launch invocation after the other, the
\* queue hands batch messages to the worker pool.
Next ==
    \/ \E l \in Launchers : CheckSCF(l, Starts(l))
    \/ \E l \in Launchers : CheckIZ(l, Starts(l))
    \/ LaunchStepsAfterCheck
    \/ WorkerSteps
    \/ Tick
    \/ SecondPasses

Spec == Init /\ [][Next]_vars

\* Launch invocations that overlap in time, with no disturbance at all.
RaceInit == InitWith({"none"})

RaceNext ==
    \/ \E l \in Launchers : CheckSCF(l, StartsOverlapping(l))
    \/ \E l \in Launchers : CheckIZ(l, StartsOverlapping(l))
    \/ LaunchStepsAfterCheck
    \/ WorkerSteps
    \/ Tick
    \/ SecondPasses

RaceSpec == RaceInit /\ [][RaceNext]_vars

\* The deployed system over time: the timer keeps firing, the queue keeps delivering,
\* time keeps passing. The only disturbance is a batch message that fails to enqueue.
FairInit == InitWith({"send"})

LaunchSteps ==
    \/ \E l \in Launchers : CheckSCF(l, Starts(l))
    \/ \E l \in Launchers : CheckIZ(l, Starts(l))
    \/ LaunchStepsAfterCheck
    \/ \E l \in Launchers : Relaunch(l)

FairNext == LaunchSteps \/ WorkerSteps \/ Tick \/ SecondPasses

FairSpec ==
    /\ FairInit /\ [][FairNext]_vars
    /\ WF_vars(LaunchSteps) /\ WF_vars(WorkerSteps) /\ WF_vars(Tick)

\* The deployed system with the queue handing out one batch at a time to the
\* aggregator: no _update_batch_progress call starts while another one is between its
\* query and its upsert.
Updating == {k \in DOMAIN work : work[k].pc = "write"}

SeqNext == Next /\ Cardinality(Updating') <= 1

SeqSpec == Init /\ [][SeqNext]_vars

\* The deployed system with a queue host that keeps delivering: the disturbances are
\* the errors that reach the queue handler, a message body that does not parse and an
\* error escaping process_batch.
RetryInit == InitWith({"message_parse", "triage_raise"})

RetrySpec == RetryInit /\ [][Next]_vars /\ WF_vars(WorkerSteps)

\* The upstream item processors stage one more item while the report runs: an upsert
\* of the row keyed by the item's barcode into the staging partition.
Stage ==
    /\ \E barcode \in Barcodes \ staged : staged' = staged \cup {barcode}
    /\ UNCHANGED <<svc, upset, batchSize, lock, jobs, nextJob, launch, sendLog, queue, work,
                   dups, faults, reportCalls, transitions, reported>>
    /\ UNCHANGED <<effects, handled, reports, blobsNow>>

\* The deployed system with its upstream: items keep being staged while launches and
\* batch workers run. No storage error, no duplicate delivery.
StageInit == InitWith({"none"})

StageNext == Next \/ Stage

StageSpec == StageInit /\ [][StageNext]_vars

\* ================================================================== claims
JobExists(j) == jobs[j].status # "absent"

\* ceil(n / b), by its defining inequalities.
Ceil(n, b) == CHOOSE c \in 0..n : c * b >= n /\ (c - 1) * b < n

RECURSIVE Flatten(_)
Flatten(msgs) ==
    IF msgs = <<>> THEN <<>> ELSE Head(msgs).barcodes \o Flatten(Tail(msgs))

RECURSIVE SumCounts(_)
SumCounts(msgs) ==
    IF msgs = <<>> THEN 0 ELSE Len(Head(msgs).barcodes) + SumCounts(Tail(msgs))

\* Launch invocations that went through the whole of _enqueue_batches.
FannedOut == {l \in Launchers : launch[l].pc = "done" /\ launch[l].job # NoJobId}

\* C1: one launch over the n >= 1 staged items it read, with batch size b, computes
\* total_batches = ceil(n/b); the batch messages it passes to the queue are numbered
\* 1..ceil(n/b), their item counts sum to n, and laid end to end they are the staged
\* list as it was read (every item in exactly one message, in order).
ThmC1 ==
    \A l \in FannedOut :
        LET L == launch[l]
            n == Len(L.list)
            log == sendLog[L.job]
        IN /\ n >= 1
           /\ L.total_batches = Ceil(n, batchSize)
           /\ (svc = "scf" => jobs[L.job].total_batches = Ceil(n, batchSize))
           /\ Len(log) = Ceil(n, batchSize)
           /\ \A x \in DOMAIN log : log[x].batch_number = x /\ log[x].job_id = L.job
           /\ SumCounts(log) = n
           /\ Flatten(log) = L.list

WitC1 ==
    \E l \in FannedOut :
        /\ Len(launch[l].list) = 2 /\ batchSize = 1
        /\ Len(sendLog[launch[l].job]) = 2

\* C2 (as claimed): once exactly total_batches calls of update_progress for a job have
\* returned, with no storage error and no duplicate delivery, the job's status has
\* become completed exactly once and the final report was generated exactly once.
CexC2 ==
    (svc = "scf" /\ faults = 0 /\ dups = 0) =>
        \A j \in JobIds :
            (JobExists(j) /\ reported[j].calls = jobs[j].total_batches) =>
                /\ jobs[j].status = "completed"
                /\ transitions[j] = 1
                /\ reportCalls[j] = 1

\* C3 (as claimed): update_progress loses no update under concurrency: after k calls
\* for a job have returned, with no storage error and no duplicate delivery,
\* completed_batches is k and processed_items and failed_items are the sums of the
\* counts those calls reported.
CexC3 ==
    (svc = "scf" /\ faults = 0 /\ dups = 0) =>
        \A j \in JobIds :
            JobExists(j) =>
                /\ jobs[j].completed_batches = reported[j].calls
                /\ jobs[j].processed_items = reported[j].processed
                /\ jobs[j].failed_items = reported[j].failed

\* C4 (as claimed): in every execution the stored completed_batches never decreases,
\* the stored status never leaves completed, and the status moves to completed at
\* most once.
CexC4 ==
    [][\A j \in JobIds :
          JobExists(j) =>
              /\ jobs'[j].completed_batches >= jobs[j].completed_batches
              /\ (jobs[j].status = "completed" => jobs'[j].status = "completed")
              /\ transitions'[j] <= 1]_vars

\* C5: with no duplicate batch delivery, a job whose stored status is completed has
\* processed_items + failed_items = total_items.
ThmC5 ==
    dups = 0 =>
        \A j \in JobIds :
            jobs[j].status = "completed" =>
                jobs[j].processed_items + jobs[j].failed_items = jobs[j].total_items

WitC5 ==
    \E j \in JobIds :
        /\ dups = 0 /\ jobs[j].status = "completed"
        /\ jobs[j].total_batches = 2
        /\ jobs[j].processed_items = 1 /\ jobs[j].failed_items = 1

\* A lock that is not stale is held: a lock row at most 30 minutes old (IZ), an
\* in_progress job record (SCF).
HeldNow ==
    IF svc = "scf" THEN \E j \in JobIds : jobs[j].status = "in_progress"
    ELSE lock # NoLock /\ lock <= StaleMinutes

\* Launch invocation l makes the query of its lock check in this step.
LockQueryStep(l) == launch[l].pc = "check" /\ launch'[l] # launch[l]

LaunchRefused(l) ==
    /\ launch'[l].pc = "done" /\ launch'[l].result = "already_running"
    /\ UNCHANGED <<staged, jobs, queue, sendLog, nextJob, lock>>

\* C6 (as claimed): a launch whose lock check finds a non-stale lock held returns at
\* once: no enqueue, no job record, Staging Store unchanged.
CexC6 == [][\A l \in Launchers : (LockQueryStep(l) /\ HeldNow) => LaunchRefused(l)]_vars

\* C6 (amended): ... provided the query of the lock check does not fail.
ThmC6 ==
    [][\A l \in Launchers :
          (LockQueryStep(l) /\ HeldNow /\ faults' = faults) => LaunchRefused(l)]_vars

WitC6 ==
    \E l \in Launchers :
        /\ launch[l].pc = "done" /\ launch[l].result = "already_running"
        /\ launch[l].via = "held" /\ launch[l].job = NoJobId
        /\ staged # {}

\* C7 (as claimed): as long as no launch got past a stale lock or a storage error, no
\* two launch invocations are fanning out at the same time and at most one job is
\* in_progress.
CexC7 ==
    (\A l \in Launchers : launch[l].via \notin {"stale", "error"}) =>
        /\ Cardinality({l \in Launchers : launch[l].pc \in {"create", "send"}}) <= 1
        /\ Cardinality(InProgressJobs) <= 1

StaleNow == svc = "iz" /\ lock # NoLock /\ lock > StaleMinutes

\* C8 (as claimed): the lock check of a launch that finds a stale lock deletes the
\* lock and lets the launch proceed.
CexC8 ==
    [][\A l \in Launchers :
          /\ (LockQueryStep(l) /\ StaleNow) => launch'[l].pc \in {"evict", "read"}
          /\ (launch[l].pc = "evict" /\ launch'[l] # launch[l]) =>
                /\ launch'[l].pc = "read" /\ launch'[l].result = "proceed"
                /\ lock' = NoLock]_vars

\* C8 (amended): the lock check of a launch that finds a stale lock lets the launch
\* proceed, and deletes the lock unless a storage call of the check fails.
ThmC8 ==
    [][\A l \in Launchers :
          /\ (LockQueryStep(l) /\ StaleNow) =>
                /\ launch'[l].pc \in {"evict", "read"}
                /\ faults' = faults => launch'[l].pc = "evict"
          /\ (launch[l].pc = "evict" /\ launch'[l] # launch[l]) =>
                /\ launch'[l].pc = "read" /\ launch'[l].result = "proceed"
                /\ faults' = faults => lock' = NoLock]_vars

WitC8 ==
    \E l \in Launchers :
        /\ launch[l].via = "stale" /\ launch[l].result = "proceed"
        /\ lock = NoLock

\* C9 (as claimed): whenever a launch has been refused (already running), some later
\* launch gets past the lock check.
CexC9 ==
    (\E l \in Launchers : launch[l].pc = "done" /\ launch[l].result = "already_running")
        ~> (\E l \in Launchers : launch[l].pc = "read")

\* C10: a storage error in any call of the lock check lets the launch proceed: the
\* check reports "not running", nothing is raised, the launch is not refused.
ThmC10 ==
    [][\A l \in Launchers :
          (launch[l].pc \in {"check", "acquire", "evict"}
               /\ launch'[l] # launch[l] /\ faults' # faults) =>
              /\ launch'[l].pc = "read"
              /\ launch'[l].result = "proceed"]_vars

WitC10 ==
    \E l \in Launchers :
        /\ launch[l].via = "error" /\ launch[l].result = "proceed"
        /\ launch[l].pc = "done" /\ launch[l].job # NoJobId
        /\ HeldNow

\* The items of the batch message that process_batch invocation k holds.
BatchItems(k) == {work[k].barcodes[x] : x \in DOMAIN work[k].barcodes}

\* Invocation k runs _clear_batch_from_staging in this step.
ClearStep(k) == k \in DOMAIN work /\ work[k].pc = "clear" /\ work'[k].pc # "clear"

\* C11 (as claimed): once process_batch has triaged its items and cleared the batch
\* from staging, no item of the batch is in the Staging Store, whatever its outcome.
CexC11 == [][\A k \in Keys : ClearStep(k) => staged' \cap BatchItems(k) = {}]_vars

\* C11 (amended): ... every item of the batch whose delete call did not fail is gone
\* from the Staging Store, whatever its outcome; an item whose delete failed stays.
ThmC11 ==
    [][\A k \in Keys :
          ClearStep(k) =>
              /\ faults' = faults => staged' \cap BatchItems(k) = {}
              /\ Cardinality(staged' \cap BatchItems(k)) <= 1
              /\ staged' \ BatchItems(k) = staged \ BatchItems(k)]_vars

\* A batch of two items, one of them failed, has been cleared without a storage error.
WitC11 ==
    /\ svc = "scf" /\ faults = 0 /\ batchSize = 2 /\ staged = {}
    /\ \E j \in JobIds : reported[j].failed >= 1 /\ jobs[j].total_items = 2
    /\ \A k \in DOMAIN work : work[k].pc = "done"
    /\ work # <<>>

\* C12 (as claimed): no error raised while triaging an item escapes process_batch.
CexC12 == \A k \in DOMAIN work : work[k].pc # "raised"

\* C13 (as claimed): a job whose batch messages were all enqueued, with no storage
\* error at all, eventually has status completed, whatever the per-item outcomes.
CexC13 ==
    \A j \in JobIds :
        (JobExists(j) /\ faults = 0) ~> (jobs[j].status = "completed" \/ faults > 0)

\* Invocation k makes the job-record query of _update_batch_progress in this step and
\* does not get the record: the query raises, or finds nothing.
ReadFailsStep(k) ==
    /\ k \in DOMAIN work /\ work[k].pc = "read" /\ work'[k].pc # "read"
    /\ faults' # faults \/ jobs[k[1]].status = "absent"

\* C14: when update_progress cannot read the job record it returns normally
\* (process_batch goes on to clear the batch), writes no record, changes no store and
\* does not invoke the Report Generator.
ThmC14 ==
    [][\A k \in Keys :
          ReadFailsStep(k) =>
              /\ work'[k].pc = "clear"
              /\ UNCHANGED <<jobs, staged, lock, queue, stored, updateMsgs>>
              /\ UNCHANGED <<reportCalls, artifacts, notices>>]_vars

WitC14 ==
    /\ upset = "job_query" /\ faults = 1
    /\ \E k \in DOMAIN work :
          /\ work[k].pc = "clear"
          /\ jobs[k[1]].status = "in_progress" /\ jobs[k[1]].completed_batches = 0
          /\ reported[k[1]].calls = 1

\* _update_batch_progress invokes _generate_final_report for job j in this step.
ReportStep(j) == reportCalls'[j] = reportCalls[j] + 1

CexC16 == \A j \in JobIds : artifacts[j] <= 1 /\ notices[j] <= 1

\* C17 (as claimed): however often a batch is delivered, each of its items has at most
\* one persisted artifact of each kind (report row or item blob, update message).
CexC17 == \A p \in JobIds \X Barcodes : stored[p] <= 1 /\ updateMsgs[p] <= 1

\* C18 (as claimed): a job record is created in_progress, its status is never anything
\* but in_progress or completed, and a stored status completed is never in_progress
\* again.
CexC18 ==
    [][\A j \in JobIds :
          /\ (~JobExists(j) /\ JobExists(j)') => jobs'[j].status = "in_progress"
          /\ JobExists(j) => jobs'[j].status \in {"in_progress", "completed"}
          /\ jobs[j].status = "completed" => jobs'[j].status # "in_progress"]_vars

Counting == {k \in DOMAIN work : svc = "scf" /\ work[k].pc \in {"read", "write", "clear"}}

\* C20 (as claimed): an item's outcome is success exactly when its side effect was
\* performed and succeeded: with no duplicate delivery, the number of successes a
\* batch counts is the number of its items whose report row is stored.
CexC20 ==
    dups = 0 =>
        \A k \in Counting :
            work[k].processed = Cardinality({b \in BatchItems(k) : stored[<<k[1], b>>] >= 1})

\* The process_batch invocations that returned normally.
ReturnedNormally == {k \in DOMAIN work : work[k].pc = "done" /\ handled[k].invoked}

\* C21 (as claimed): every process_batch invocation of the service that keeps a job
\* record, once it has returned normally, has called _update_batch_progress exactly
\* once, with processed + failed equal to the number of items in the batch message.
CexC21 ==
    svc = "scf" =>
        \A k \in ReturnedNormally :
            handled[k].progress = 1 /\ handled[k].counted = handled[k].items

\* The items of the batch messages launch built for job j.
JobItems(j) == {Flatten(sendLog[j])[x] : x \in DOMAIN Flatten(sendLog[j])}

\* The stored status of job j becomes completed in this step.
CompletesStep(j) == jobs[j].status # "completed" /\ jobs'[j].status = "completed"

\* C22 (as claimed): a batch is cleared from staging before its progress is reported:
\* at the moment the stored status of a job becomes completed, with no duplicate
\* delivery and no storage error, none of the job's items is in the Staging Store.
CexC22 ==
    [][\A j \in JobIds :
          (CompletesStep(j) /\ dups' = 0 /\ faults' = 0) => staged' \cap JobItems(j) = {}]_vars

\* IZ invocation k makes the query of _cleanup_job_lock_if_complete in this step.
CleanupStep(k) == k \in DOMAIN work /\ work[k].pc = "cleanup" /\ work'[k].pc # "cleanup"

\* IZ invocation k makes the delete call for the lock row in this step.
UnlockStep(k) == k \in DOMAIN work /\ work[k].pc = "unlock" /\ work'[k].pc # "unlock"

\* C23 (as claimed): after an IZ batch, the cleanup deletes the job lock exactly when
\* it finds the Staging Store empty; while a staged item remains it returns and leaves
\* the lock as it was.
CexC23 ==
    [][\A k \in Keys :
          /\ CleanupStep(k) =>
                IF staged = {} THEN work'[k].pc = "unlock"
                ELSE work'[k].pc = "done" /\ lock' = lock
          /\ UnlockStep(k) => lock' = NoLock]_vars

\* C23 (amended): ... exactly when it finds the Staging Store empty and neither its
\* query nor its delete fails; while a staged item remains, or when one of the two
\* calls fails, it returns and leaves the lock as it was.
ThmC23 ==
    [][\A k \in Keys :
          /\ CleanupStep(k) =>
                /\ lock' = lock
                /\ IF staged = {} /\ faults' = faults THEN work'[k].pc = "unlock"
                   ELSE work'[k].pc = "done"
          /\ UnlockStep(k) =>
                /\ work'[k].pc = "done"
                /\ lock' = IF faults' = faults THEN NoLock ELSE lock
          /\ (k \in DOMAIN work /\ work[k].pc \notin {"cleanup", "unlock"}
                 /\ work'[k] # work[k]) => lock' = lock]_vars

\* Two IZ batches of one item each: both have returned, the Staging Store is empty
\* and the lock is gone.
WitC23 ==
    /\ svc = "iz" /\ faults = 0 /\ batchSize = 1 /\ staged = {} /\ lock = NoLock
    /\ Cardinality({k \in DOMAIN work : work[k].pc = "done"}) = 2
    /\ \E l \in Launchers : launch[l].via = "absent" /\ Len(launch[l].list) = 2

\* The batch messages of job j that send_queue_message did not accept, and their items.
Unsent(j) == {sendLog[j][x] : x \in {y \in DOMAIN sendLog[j] : sendLog[j][y] \notin queue}}
UnsentItems(j) == UNION {SeqSet(m.barcodes) : m \in Unsent(j)}

\* C24: a send that fails during launch stops nothing: the launch passes every batch
\* of the job to the queue, all but the failed ones are enqueued, and it returns
\* normally; no batch worker of the job deletes an item of a batch that failed to
\* enqueue, so those items stay staged as long as no other job takes them up.
FanOutComplete ==
    /\ \A l \in FannedOut :
          /\ launch[l].result = "proceed"
          /\ Len(sendLog[launch[l].job]) = launch[l].total_batches
          /\ Cardinality(Unsent(launch[l].job)) <= (IF upset = "send" THEN faults ELSE 0)
    /\ \A j \in JobIds :
          (\A k \in DOMAIN work : k[1] = j) => UnsentItems(j) \subseteq staged

ThmC24 ==
    [][/\ FanOutComplete'
       /\ \A k \in Keys :
             ClearStep(k) =>
                 staged' \cap UnsentItems(k[1]) = staged \cap UnsentItems(k[1])]_vars

\* Two batches of one item each, the send of one failed: the launch has returned, the
\* other batch was processed and cleared, the unsent item is still staged.
WitC24 ==
    /\ upset = "send" /\ faults = 1 /\ batchSize = 1
    /\ \E l \in FannedOut :
          /\ Len(sendLog[launch[l].job]) = 2
          /\ Cardinality(Unsent(launch[l].job)) = 1
          /\ staged = UnsentItems(launch[l].job)
          /\ \E k \in DOMAIN work : k[1] = launch[l].job /\ work[k].pc = "done"

\* Launch invocation l reads the staged set in this step.
ReadStagedStep(l) == launch[l].pc = "read" /\ launch'[l] # launch[l]

\* C25: a launch that finds the staged set empty, or cannot read it, returns there:
\* it draws no job id, writes no job record, passes nothing to the queue and leaves
\* the Staging Store as it is.
ThmC25 ==
    [][\A l \in Launchers :
          (ReadStagedStep(l) /\ (staged = {} \/ faults' # faults)) =>
              /\ launch'[l].pc = "done" /\ launch'[l].job = NoJobId
              /\ launch'[l].result = "proceed"
              /\ UNCHANGED <<staged, jobs, nextJob, sendLog, queue>>]_vars

\* A first job has emptied the Staging Store; the next launch got past the lock check,
\* found nothing staged and returned without a job.
WitC25 ==
    /\ faults = 0 /\ staged = {} /\ nextJob = 1
    /\ \E l \in Launchers :
          /\ launch[l].pc = "done" /\ launch[l].result = "proceed"
          /\ launch[l].job = NoJobId /\ launch[l].list = <<>>
    /\ \A j \in JobIds \ {1} : ~JobExists(j) /\ sendLog[j] = <<>>

\* Launch invocation l runs _create_batch_job in this step and goes on to the fan-out.
CreateStep(l) == launch[l].pc = "create" /\ launch'[l].pc = "send"

\* Launch invocation l passes the first batch message of its job to the queue in this step.
FirstSendStep(l) == launch[l].pc = "send" /\ launch[l].i = 0 /\ launch'[l] # launch[l]

\* Invocation k calls _update_batch_progress in this step.
ProgressCallStep(k) == k \in DOMAIN work /\ work[k].pc = "read" /\ work'[k].pc # "read"

\* The BatchJob record as launch has to write it for n items.
FreshRecord(n) ==
    [status |-> "in_progress", total_items |-> n, total_batches |-> Ceil(n, batchSize),
     completed_batches |-> 0, processed_items |-> 0, failed_items |-> 0]

CreateFailsStep(l) == launch[l].pc = "create" /\ launch'[l] # launch[l] /\ faults' # faults

\* No batch message was ever built for a job id whose record was never written.
NothingSentUnrecorded ==
    svc = "scf" =>
        \A j \in JobIds :
            ~JobExists(j) => sendLog[j] = <<>> /\ \A m \in queue : m.job_id # j

\* C27: when the write of the BatchJob record fails, the error leaves launch: the
\* invocation ends there, the Staging Store and the queue are as they were, and no
\* batch message is ever sent for the job id it had drawn.
ThmC27 ==
    [][/\ \A l \in Launchers :
             CreateFailsStep(l) =>
                 /\ launch'[l].pc = "done" /\ launch'[l].result = "raised"
                 /\ launch'[l].job = NoJobId
                 /\ UNCHANGED <<staged, jobs, sendLog, queue>>
       /\ NothingSentUnrecorded']_vars

\* The job record of the first launch could not be written: the launch raised, its
\* items are still staged, nothing was sent, and the next launch has started a job.
WitC27 ==
    /\ upset = "job_create" /\ faults = 1 /\ nextJob = 2
    /\ launch[1].result = "raised" /\ launch[1].pc = "done"
    /\ ~JobExists(1) /\ sendLog[1] = <<>>
    /\ JobExists(2) /\ Len(sendLog[2]) = 2

\* The items of job j that were triaged with success: with no storage error, those
\* whose report row is stored.
Successes(j) == {b \in Barcodes : stored[<<j, b>>] >= 1}

\* C28 (as claimed): with no duplicate delivery and no storage error, the final report
\* of a job lists in processed_items exactly the items triaged with success and in
\* failed_items exactly the items that failed, and the two counts of its summary are
\* the job record's processed_items and failed_items.
CexC28 ==
    (svc = "scf" /\ dups = 0 /\ faults = 0) =>
        \A j \in JobIds :
            reports[j] # NoReport =>
                /\ reports[j].processed_items = Successes(j)
                /\ reports[j].failed_items = JobItems(j) \ Successes(j)
                /\ reports[j].successfully_processed = jobs[j].processed_items
                /\ reports[j].failed = jobs[j].failed_items

\* The final report of job j is uploaded in this step.
UploadStep(j) == artifacts'[j] = artifacts[j] + 1

\* C29 (as claimed): the reports of two different jobs are never stored under the same
\* name, whenever they are generated: the upload of one job's report leaves every
\* other job's stored report in place.
CexC29 ==
    [][\A i, j \in JobIds : (i # j /\ UploadStep(j)) => reports'[i] = reports[i]]_vars

\* The queue hands delivery k to the handler in this step.
HandlerStep(k) == k \notin DOMAIN work /\ k \in DOMAIN work'

\* The deliveries whose handler raised and whose message has not been delivered again.
AwaitingRedelivery ==
    {k \in DOMAIN work : work[k].pc = "raised" /\ <<k[1], k[2], k[3] + 1>> \notin DOMAIN work}

\* C30: the batch queue handler raises again every error raised while it parses the
\* message or inside process_batch: the delivery ends raised, never as returned, so
\* the message is not acknowledged and the queue delivers it again; when the message
\* cannot be parsed, process_batch is not invoked and no store changes.
ThmC30 ==
    /\ [][\A k \in Keys :
             (HandlerStep(k) /\ faults' # faults) =>
                 /\ work'[k].pc = "raised"
                 /\ \E m \in queue' : KeyOf(m, k[3]) = k
                 /\ upset = "message_parse" =>
                       /\ ~handled'[k].invoked
                       /\ UNCHANGED <<staged, lock, jobs, queue, reported>>
                       /\ UNCHANGED effects
                 /\ upset = "triage_raise" => handled'[k].invoked]_vars
    /\ (AwaitingRedelivery # {}) ~> (AwaitingRedelivery = {})

\* A batch message that could not be parsed was delivered again, with no duplicate
\* delivery, and process_batch then ran to its end.
WitC30 ==
    /\ upset = "message_parse" /\ dups = 0
    /\ \E k \in DOMAIN work :
          /\ k[3] = 1 /\ work[k].pc = "raised" /\ ~handled[k].invoked
          /\ <<k[1], k[2], 2>> \in DOMAIN work
          /\ work[<<k[1], k[2], 2>>].pc = "done" /\ handled[<<k[1], k[2], 2>>].invoked

\* C31: a delete that fails for one staged item stops nothing: _clear_batch_from_staging
\* calls delete_entity exactly once for every item of the batch, in order, every item
\* whose delete did not fail is gone from the Staging Store, and process_batch goes on
\* to its end instead of raising.
ThmC31 ==
    [][\A k \in Keys :
          ClearStep(k) =>
              /\ handled'[k].deletes = work[k].barcodes
              /\ staged' \cap (BatchItems(k) \ handled'[k].undeleted) = {}
              /\ staged' \cap handled'[k].undeleted = staged \cap handled'[k].undeleted
              /\ work'[k].pc = IF svc = "iz" THEN "cleanup" ELSE "done"]_vars

\* A batch of two items: the delete of the first one failed, the second one was
\* deleted all the same, and process_batch returned.
WitC31 ==
    /\ upset = "stage_delete" /\ faults = 1
    /\ \E k \in DOMAIN work :
          /\ work[k].pc = "done" /\ Len(handled[k].deletes) = 2
          /\ handled[k].undeleted = {handled[k].deletes[1]}
          /\ staged = handled[k].undeleted

\* The lock check of IZ launch invocation l ends in this step, after its query.
LockCheckEndsStep(l) ==
    /\ svc = "iz"
    /\ launch[l].pc \in {"acquire", "evict"}
    /\ launch'[l] # launch[l]

\* C32 (as claimed): whenever the IZ lock check lets a launch proceed and none of its
\* storage calls failed, a lock row with a fresh created_at exists afterwards, so that
\* a launch starting right then is refused.
CexC32 ==
    [][\A l \in Launchers :
          (LockCheckEndsStep(l) /\ launch'[l].result = "proceed" /\ faults' = faults) =>
              /\ lock' = 0
              /\ HeldNow']_vars

\* C33 (as claimed): a launch that sent no batch message leaves no lock behind, so a
\* launch is refused (already running) only when some launch has passed a batch
\* message to the queue.
CexC33 ==
    \A l \in Launchers :
        launch[l].result = "already_running" => \E j \in JobIds : sendLog[j] # <<>>

\* C34 (as claimed): in every job record, also under duplicate delivery and concurrent
\* workers, completed_batches <= total_batches and
\* processed_items + failed_items <= total_items.
CexC34 ==
    \A j \in JobIds :
        JobExists(j) =>
            /\ jobs[j].completed_batches <= jobs[j].total_batches
            /\ jobs[j].processed_items + jobs[j].failed_items <= jobs[j].total_items

\* C35: in every stored job record, at every moment, status is completed if and only
\* if completed_batches >= total_batches.
ThmC35 ==
    \A j \in JobIds :
        JobExists(j) =>
            /\ jobs[j].status \in {"in_progress", "completed"}
            /\ jobs[j].status = "completed" <=>
                   jobs[j].completed_batches >= jobs[j].total_batches

\* Two job records side by side, both written by _update_batch_progress: one that
\* reached its total and says completed, one that is one batch short and says
\* in_progress.
WitC35 ==
    \E i, j \in JobIds :
        /\ jobs[i].status = "completed"
        /\ jobs[i].completed_batches = jobs[i].total_batches
        /\ jobs[j].status = "in_progress"
        /\ jobs[j].completed_batches = 1 /\ jobs[j].total_batches = 2

\* Invocation k makes the upsert call of _update_batch_progress in this step.
UpsertStep(k) == k \in DOMAIN work /\ work[k].pc = "write" /\ work'[k].pc # "write"

\* C39: _update_batch_progress invokes the Report Generator only after it has written
\* the job record with status completed: when the Report Generator is invoked, the
\* store holds the completed record that this call wrote; when the write of the record
\* fails, this call invokes no Report Generator, stores no final report and sends no
\* notification.
ThmC39 ==
    [][\A k \in Keys :
          UpsertStep(k) =>
              /\ ReportStep(k[1]) =>
                    /\ jobs'[k[1]] = UpdatedJob(work[k].snap, work[k].processed, work[k].failed)
                    /\ jobs'[k[1]].status = "completed"
              /\ (upset = "job_update" /\ faults' # faults) =>
                    /\ jobs' = jobs
                    /\ reportCalls' = reportCalls
                    /\ artifacts' = artifacts /\ notices' = notices
                    /\ reports' = reports]_vars

\* The only batch of a job has been counted, and the write that would have completed
\* the job failed: the record still says in_progress, no report, no notification.
WitC39 ==
    /\ upset = "job_update" /\ faults = 1
    /\ \E j \in JobIds :
          /\ jobs[j].status = "in_progress" /\ jobs[j].total_batches = 1
          /\ reported[j].calls = 1
          /\ reportCalls[j] = 0 /\ artifacts[j] = 0 /\ notices[j] = 0
          /\ reports[j] = NoReport

\* C37 (as claimed): with no duplicate delivery and no storage error, no staged item
\* is put into batch messages of two different jobs.
CexC37 ==
    (faults = 0 /\ dups = 0) =>
        \A i, j \in JobIds : i # j => JobItems(i) \cap JobItems(j) = {}

\* A batch message other than the one invocation k holds is undelivered, or delivered
\* and not yet through the clearing of its items from staging.
OtherBatchPending(k) ==
    \E m \in queue :
        \/ KeyOf(m, 1) \notin DOMAIN work
        \/ \E d \in Deliveries :
              /\ KeyOf(m, d) \in DOMAIN work /\ KeyOf(m, d) # k
              /\ work[KeyOf(m, d)].pc \notin {"cleanup", "unlock", "done", "raised"}

\* C36 (as claimed): the end-of-batch cleanup of an IZ batch worker never deletes the
\* job lock while another batch message is undelivered or being processed, however
\* launches, batch workers and upstream staging interleave.
CexC36 ==
    [][\A k \in Keys :
          (UnlockStep(k) /\ lock # NoLock /\ lock' = NoLock) => ~OtherBatchPending(k)]_vars

\* The items no launch has put into a batch message.
NeverFannedOut == Barcodes \ UNION {JobItems(j) : j \in JobIds}

\* C38: process_batch removes from the Staging Store only the keys listed in its own
\* batch message: its clearing step leaves every staged item with another key in
\* place, those of other batches and those staged by upstream meanwhile, and no other
\* step of process_batch changes the Staging Store at all.
ThmC38 ==
    [][\A k \in Keys :
          /\ ClearStep(k) =>
                /\ staged' \ BatchItems(k) = staged \ BatchItems(k)
                /\ staged' \subseteq staged
          /\ (HandlerStep(k) \/ ProgressCallStep(k) \/ UpsertStep(k)
                \/ CleanupStep(k) \/ UnlockStep(k)) => staged' = staged]_vars

\* A batch has been cleared from staging, and an item that upstream staged after the
\* launch read the Staging Store, under a key of no batch message, is still staged.
WitC38 ==
    \E k \in DOMAIN work :
        /\ handled[k].deletes # <<>>
        /\ SeqSet(handled[k].deletes) \cap staged = {}
        /\ staged \cap NeverFannedOut # {}
====
